---------------------------- MODULE Spec2Model ----------------------------
(***************************************************************************)
(* The USB CDC-ACM device controller of src/src/machine/usb_nrf52840.go:   *)
(* the interrupt handler, the control-transfer requests, the endpoint I/O  *)
(* and the easyDMA critical section, together with the nRF52840 USBD       *)
(* peripheral and the USB host as their environment.                      *)
(***************************************************************************)
EXTENDS Integers, Sequences, FiniteSets, TLC

VARIABLES
  mem,    \* the package-level variables of usb_nrf52840.go (lines 43-69)
  USBD,   \* the registers and endpoint buffers of the nrf.USBD peripheral
  dma,    \* the easyDMA transfers started and not yet completed
  fg,     \* the foreground caller of WriteByte: its position and argument
  isr,    \* "idle", or "hung": the handler spins in waitForEasyDMA
  log,    \* what the handler invocation of the last step did, in order
          \* (empty after a step of anything else)
  obs     \* what the host has set so far: the line coding of the last
          \* SET_LINE_CODING data phase parsed, the value of the last
          \* SET_CONFIGURATION not followed by a bus-ready event

vars == <<mem, USBD, dma, fg, isr, log, obs>>

----------------------------------------------------------------------------
(* Bounds of the model.                                                    *)

\* capacity of the ring buffer the bulk OUT bytes are pushed into
RingCap == 2

\* how many events the peripheral raises before the handler gets to run
MaxPending == 2

----------------------------------------------------------------------------
(* Program constants.  Those of usb.go are not part of the source at hand  *)
(* and carry the values of the USB 2.0 and CDC 1.1 specifications.         *)

usbEndpointPacketSize == 64
CacheLen == 128
EP0OutMaxCnt == 64
LineCodingLen == 7

usb_GET_STATUS == 0
usb_CLEAR_FEATURE == 1
usb_SET_FEATURE == 3
usb_SET_ADDRESS == 5
usb_GET_DESCRIPTOR == 6
usb_SET_DESCRIPTOR == 7
usb_GET_CONFIGURATION == 8
usb_SET_CONFIGURATION == 9
usb_GET_INTERFACE == 10
usb_SET_INTERFACE == 11

usb_REQUEST_TYPE == 96
usb_REQUEST_STANDARD == 0
usb_REQUEST_RECIPIENT == 31
usb_REQUEST_DEVICE == 0
usb_REQUEST_DEVICETOHOST_CLASS_INTERFACE == 161
usb_REQUEST_HOSTTODEVICE_CLASS_INTERFACE == 33

usb_CDC_GET_LINE_CODING == 33
usb_CDC_SET_LINE_CODING == 32
usb_CDC_SET_CONTROL_LINE_STATE == 34
usb_CDC_SEND_BREAK == 35
usb_CDC_LINESTATE_DTR == 1
usb_CDC_LINESTATE_RTS == 2

usb_CDC_ACM_INTERFACE == 0
usb_CDC_DATA_INTERFACE == 1
usb_CDC_ENDPOINT_ACM == 1
usb_CDC_ENDPOINT_OUT == 2
usb_CDC_ENDPOINT_IN == 3

usb_DEVICE_DESCRIPTOR_TYPE == 1
usb_CONFIGURATION_DESCRIPTOR_TYPE == 2
usb_STRING_DESCRIPTOR_TYPE == 3
usb_IMANUFACTURER == 1
usb_IPRODUCT == 2
usb_ISERIAL == 3

usb_ENDPOINT_TYPE_CONTROL == 0
usb_ENDPOINT_TYPE_BULK == 2
usb_ENDPOINT_TYPE_INTERRUPT == 3
usbEndpointOut == 0
usbEndpointIn == 128

usb_VID == 9114
usb_PID == 32809

\* the nil pointer of sendOnEP0DATADONE.ptr; a non-nil ptr is an offset
\* into udd_ep_in_cache_buffer[0]
Nil == -1

\* endPoints (lines 57-60): the configuration of endpoint i is endPoints[i+1]
endPoints ==
  << usb_ENDPOINT_TYPE_CONTROL,
     usb_ENDPOINT_TYPE_INTERRUPT + usbEndpointIn,
     usb_ENDPOINT_TYPE_BULK + usbEndpointOut,
     usb_ENDPOINT_TYPE_BULK + usbEndpointIn >>

NumEndpoints == Len(endPoints)

----------------------------------------------------------------------------
(* Integer and byte helpers.                                               *)

Min(a, b) == IF a < b THEN a ELSE b

RECURSIVE BitAnd(_, _)
\* a & b on naturals
BitAnd(a, b) ==
  IF a = 0 \/ b = 0 THEN 0
  ELSE (IF a % 2 = 1 /\ b % 2 = 1 THEN 1 ELSE 0) + 2 * BitAnd(a \div 2, b \div 2)

\* byte(x >> (8*k)) of an unsigned value below 2^31
ByteOf(x, k) == (x \div (256 ^ k)) % 256

\* A uint32 is held as its two 16-bit halves [lo, hi], value lo + 65536 * hi:
\* the model checker's integers end at 2^31 - 1.
U32(n) == [lo |-> n % 65536, hi |-> (n \div 65536) % 65536]

\* byte(x >> (8*k)) of a uint32, k in 0..3
U32Byte(x, k) == IF k < 2 THEN ByteOf(x.lo, k) ELSE ByteOf(x.hi, k - 2)

\* uint32(b[i]) | uint32(b[i+1])<<8 | uint32(b[i+2])<<16 | uint32(b[i+3])<<24
\* (1-based i)
LE32(b, i) ==
  [lo |-> (b[i] + b[i + 1] * 256) % 65536, hi |-> (b[i + 2] + b[i + 3] * 256) % 65536]

Zeros(n) == [i \in 1..n |-> 0]

\* copy(dst[off:], src): bytes of src overwrite dst from 0-based offset off,
\* cut at the end of dst
CopyInto(dst, off, src) ==
  [i \in 1..Len(dst) |->
     IF i > off /\ i <= off + Len(src) THEN src[i - off] ELSE dst[i]]

\* the n bytes of buf from 0-based offset ptr; a read past the end of the
\* row is cut (the memory behind the row is not modelled)
Slice(buf, ptr, n) == SubSeq(buf, ptr + 1, Min(ptr + n, Len(buf)))

----------------------------------------------------------------------------
(* The descriptor encoders of usb.go, by the byte layouts of USB 2.0       *)
(* chapter 9 and CDC 1.1.                                                  *)

\* DeviceDescriptor.Bytes() of NewDeviceDescriptor(class, subClass, proto,
\* packetSize0, vid, pid, version, im, ip, is, configs)
DeviceDescriptorBytes(class, subClass, proto, packetSize0, vid, pid, version, im, ip, is, configs) ==
  << 18, 1, 0, 2, class, subClass, proto, packetSize0,
     ByteOf(vid, 0), ByteOf(vid, 1), ByteOf(pid, 0), ByteOf(pid, 1),
     ByteOf(version, 0), ByteOf(version, 1), im, ip, is, configs >>

\* ConfigDescriptor.Bytes() of NewConfigDescriptor(totalLength, interfaces)
ConfigDescriptorBytes(totalLength, interfaces) ==
  << 9, 2, ByteOf(totalLength, 0), ByteOf(totalLength, 1), interfaces, 1, 0, 160, 50 >>

\* CDCDescriptor.Bytes(): IAD, communication interface, header, ACM, union,
\* call management, interrupt IN endpoint, data interface, bulk OUT, bulk IN
CDCDescriptorBytes ==
  << 8, 11, 0, 2, 2, 2, 0, 0 >>
  \o << 9, 4, usb_CDC_ACM_INTERFACE, 0, 1, 2, 2, 0, 0 >>
  \o << 5, 36, 0, 16, 1 >>
  \o << 4, 36, 2, 6 >>
  \o << 5, 36, 6, usb_CDC_ACM_INTERFACE, usb_CDC_DATA_INTERFACE >>
  \o << 5, 36, 1, 1, 1 >>
  \o << 7, 5, usb_CDC_ENDPOINT_ACM + usbEndpointIn, usb_ENDPOINT_TYPE_INTERRUPT, 16, 0, 16 >>
  \o << 9, 4, usb_CDC_DATA_INTERFACE, 0, 2, 10, 0, 0, 0 >>
  \o << 7, 5, usb_CDC_ENDPOINT_OUT + usbEndpointOut, usb_ENDPOINT_TYPE_BULK, usbEndpointPacketSize, 0, 0 >>
  \o << 7, 5, usb_CDC_ENDPOINT_IN + usbEndpointIn, usb_ENDPOINT_TYPE_BULK, usbEndpointPacketSize, 0, 0 >>

configDescriptorSize == Len(ConfigDescriptorBytes(0, 0))
cdcSize == Len(CDCDescriptorBytes)

\* usb_STRING_MANUFACTURER and usb_STRING_PRODUCT as character codes
usb_STRING_MANUFACTURER == << 78, 82 >>
usb_STRING_PRODUCT == << 110, 82, 70 >>

\* strToUTF16LEDescriptor: length, type 3, then each character as UTF-16LE
strToUTF16LEDescriptor(s) ==
  << 2 + 2 * Len(s), usb_STRING_DESCRIPTOR_TYPE >>
  \o [i \in 1..(2 * Len(s)) |-> IF i % 2 = 1 THEN s[(i + 1) \div 2] ELSE 0]

----------------------------------------------------------------------------
(* The state a handler invocation works on: the variables it reads and     *)
(* writes, its log, and how it ended (ret: an early return, hung: it spins *)
(* in waitForEasyDMA, ok: the result of the setup handlers).               *)

Cur ==
  [mem |-> mem, USBD |-> USBD, dma |-> dma, log |-> << >>,
   hung |-> FALSE, ret |-> FALSE, ok |-> FALSE]

\* a write of 1 to a task register, recorded in the order of the writes
Trigger(s, t) == [s EXCEPT !.log = Append(@, t)]

Return(s) == [s EXCEPT !.ret = TRUE]

\* the in-flight transfers with the one of endpoint ep, direction dir replaced
StartDMA(d, ep, dir, ptr, cnt) ==
  {t \in d : ~(t.ep = ep /\ t.dir = dir)}
    \cup {[ep |-> ep, dir |-> dir, ptr |-> ptr, cnt |-> cnt]}

\* sendViaEPIn (lines 521-527): EPIN[ep].PTR, EPIN[ep].MAXCNT, TASKS_STARTEPIN[ep];
\* ptr is the offset of the pointer into udd_ep_in_cache_buffer[ep]
sendViaEPIn(s, ep, ptr, count) ==
  Trigger([s EXCEPT !.dma = StartDMA(@, ep, "IN", ptr, count)],
          <<"STARTEPIN", ep, ptr, count>>)

\* EPOUT[ep].PTR = &udd_ep_out_cache_buffer[ep], EPOUT[ep].MAXCNT = maxcnt,
\* TASKS_STARTEPOUT[ep] (lines 131-133 and 193-196)
startEPOut(s, ep, maxcnt) ==
  Trigger([s EXCEPT !.dma = StartDMA(@, ep, "OUT", 0, maxcnt)],
          <<"STARTEPOUT", ep, maxcnt>>)

\* nrf.USBD.SIZE.EPOUT[ep].Set(0): the write lets the endpoint accept the
\* next OUT packet
setSizeEPOut(s, ep) ==
  [s EXCEPT !.USBD.SIZE_EPOUT[ep] = 0, !.USBD.epoutArmed = @ \cup {ep}]

\* enterCriticalSection (lines 73-82) inside the handler: nothing clears the
\* flag while the handler runs, so a set flag is waited for forever
enterCriticalSection(s) ==
  IF s.mem.easyDMABusy = 1
  THEN [s EXCEPT !.hung = TRUE]
  ELSE [s EXCEPT !.mem.easyDMABusy = 1, !.log = Append(@, <<"enterCriticalSection">>)]

\* exitCriticalSection (lines 84-86)
exitCriticalSection(s) ==
  [s EXCEPT !.mem.easyDMABusy = 0, !.log = Append(@, <<"exitCriticalSection">>)]

\* enableEPOut, enableEPIn (lines 529-537)
enableEPOut(s, ep) == [s EXCEPT !.mem.epouten = @ \cup {ep}]

enableEPIn(s, ep) == [s EXCEPT !.mem.epinen = @ \cup {ep}]

\* initEndpoint (lines 246-270)
initEndpoint(s, ep, config) ==
  LET s0 == Trigger(s, <<"initEndpoint", ep>>) IN
  CASE config = usb_ENDPOINT_TYPE_INTERRUPT + usbEndpointIn -> enableEPIn(s0, ep)
    [] config = usb_ENDPOINT_TYPE_BULK + usbEndpointOut -> enableEPOut(setSizeEPOut(s0, ep), ep)
    [] config = usb_ENDPOINT_TYPE_INTERRUPT + usbEndpointOut -> enableEPOut(setSizeEPOut(s0, ep), ep)
    [] config = usb_ENDPOINT_TYPE_BULK + usbEndpointIn -> enableEPIn(s0, ep)
    [] config = usb_ENDPOINT_TYPE_CONTROL ->
         Trigger(enableEPOut(enableEPIn(s0, 0), 0), <<"EP0STATUS">>)
    [] OTHER -> s0

\* checkShouldReset: the reset policy hook; its body is outside this core
checkShouldReset(s) == Trigger(s, <<"checkShouldReset">>)

\* parseUSBLineInfo (lines 228-233); b is 1-based
\* a parse that takes the parity from byte 4 and the stop bits from byte 5
parseUSBLineInfoSwapped(s, b) ==
  [s EXCEPT !.mem.usbLineInfo.dwDTERate = LE32(b, 1),
            !.mem.usbLineInfo.bCharFormat = b[6],
            !.mem.usbLineInfo.bParityType = b[5],
            !.mem.usbLineInfo.bDataBits = b[7],
            !.log = Append(@, <<"parseUSBLineInfo">>)]

parseUSBLineInfo(s, b) ==
  [s EXCEPT !.mem.usbLineInfo.dwDTERate = LE32(b, 1),
            !.mem.usbLineInfo.bCharFormat = b[5],
            !.mem.usbLineInfo.bParityType = b[6],
            !.mem.usbLineInfo.bDataBits = b[7],
            !.log = Append(@, <<"parseUSBLineInfo">>)]

\* parseUSBSetupRegisters (lines 235-244)
parseUSBSetupRegisters(s) ==
  LET r == s.USBD.setup IN
  [bmRequestType |-> r.BMREQUESTTYPE % 256,
   bRequest |-> r.BREQUEST % 256,
   wValueL |-> r.WVALUEL % 256,
   wValueH |-> r.WVALUEH % 256,
   wIndex |-> (r.WINDEXH * 256 + r.WINDEXL) % 65536,
   wLength |-> ((r.WLENGTHH % 256) * 256 + (r.WLENGTHL % 256)) % 65536]

\* sendUSBPacket (lines 387-400)
sendUSBPacket(s, ep, data) ==
  LET count == Len(data)
      s1 == [s EXCEPT !.mem.udd_ep_in_cache_buffer[ep] = CopyInto(@, 0, data)]
      split == ep = 0 /\ count > usbEndpointPacketSize
      s2 == IF split
            THEN [s1 EXCEPT !.mem.sendOnEP0DATADONE =
                     [ptr |-> usbEndpointPacketSize, count |-> count - usbEndpointPacketSize]]
            ELSE s1
  IN sendViaEPIn(s2, ep, 0, IF split THEN usbEndpointPacketSize ELSE count)

\* sendConfiguration (lines 460-506)
sendConfiguration(s, setup) ==
  LET sz == (configDescriptorSize + cdcSize) % 65536
      config == ConfigDescriptorBytes(sz, 2)
  IN IF setup.wLength = 9
     THEN sendUSBPacket(s, 0, config)
     ELSE sendUSBPacket(s, 0, config \o CDCDescriptorBytes)

\* the bytes sendConfiguration sends when wLength is not 9 (lines 498-505)
ConfigurationResponse ==
  ConfigDescriptorBytes((configDescriptorSize + cdcSize) % 65536, 2) \o CDCDescriptorBytes

\* the two device descriptors of sendDescriptor (lines 412 and 416)
DeviceDescriptor8 ==
  DeviceDescriptorBytes(239, 2, 1, 64, usb_VID, usb_PID, 256,
                        usb_IMANUFACTURER, usb_IPRODUCT, usb_ISERIAL, 1)

DeviceDescriptorFull ==
  DeviceDescriptorBytes(2, 0, 0, 64, usb_VID, usb_PID, 256,
                        usb_IMANUFACTURER, usb_IPRODUCT, usb_ISERIAL, 1)

\* the bytes sendDescriptor passes to sendUSBPacket for a device descriptor
\* request of the given wLength (lines 409-419)
DeviceDescriptorResponse(wLength) ==
  IF wLength = 8 THEN SubSeq(DeviceDescriptor8, 1, 8) ELSE DeviceDescriptorFull

\* a string descriptor, or its first two bytes when wLength is 2 (lines 431-445)
StringResponse(str, wLength) ==
  LET b == strToUTF16LEDescriptor(str)
  IN IF wLength = 2 THEN SubSeq(b, 1, 2) ELSE b

\* sendDescriptor (lines 404-457)
sendDescriptor(s, setup) ==
  CASE setup.wValueH = usb_CONFIGURATION_DESCRIPTOR_TYPE -> sendConfiguration(s, setup)
    [] setup.wValueH = usb_DEVICE_DESCRIPTOR_TYPE ->
         sendUSBPacket(s, 0, DeviceDescriptorResponse(setup.wLength))
    [] setup.wValueH = usb_STRING_DESCRIPTOR_TYPE ->
         ( CASE setup.wValueL = 0 -> sendUSBPacket(s, 0, <<4, 3, 9, 4>>)
             [] setup.wValueL = usb_IPRODUCT ->
                  sendUSBPacket(s, 0, StringResponse(usb_STRING_PRODUCT, setup.wLength))
             [] setup.wValueL = usb_IMANUFACTURER ->
                  sendUSBPacket(s, 0, StringResponse(usb_STRING_MANUFACTURER, setup.wLength))
             [] setup.wValueL = usb_ISERIAL -> Trigger(s, <<"EP0STATUS">>)
             [] OTHER -> s )
    [] OTHER -> Trigger(s, <<"EP0STATUS">>)

Ok(s, b) == [s EXCEPT !.ok = b]

\* the default case of handleStandardSetup (lines 344-345)
StandardDefault(s) == Ok(s, TRUE)

\* the SET_CONFIGURATION loop (lines 323-325): initEndpoint(i, endPoints[i])
\* for i = from .. len(endPoints)-1
RECURSIVE InitEndpoints(_, _)
InitEndpoints(s, i) ==
  IF i < NumEndpoints
  THEN InitEndpoints(initEndpoint(s, i, endPoints[i + 1]), i + 1)
  ELSE s

\* a loop that starts at the control endpoint, and so initializes it again
LoopFromControlEndpoint == 1 - 1

\* the index the SET_CONFIGURATION loop starts at (line 323)
FirstConfiguredEndpoint == 1

\* handleStandardSetup (lines 272-347)
handleStandardSetup(s, setup) ==
  CASE setup.bRequest = usb_GET_STATUS ->
         LET halt == IF setup.bmRequestType # 0 /\ s.mem.isEndpointHalt THEN 1 ELSE 0
         IN Ok(sendUSBPacket(s, 0, <<halt, 0>>), TRUE)
    [] setup.bRequest = usb_CLEAR_FEATURE ->
         LET s1 == IF setup.wValueL = 1 THEN [s EXCEPT !.mem.isRemoteWakeUpEnabled = FALSE]
                   ELSE IF setup.wValueL = 0 THEN [s EXCEPT !.mem.isEndpointHalt = FALSE]
                   ELSE s
         IN Ok(Trigger(s1, <<"EP0STATUS">>), TRUE)
    [] setup.bRequest = usb_SET_FEATURE ->
         LET s1 == IF setup.wValueL = 1 THEN [s EXCEPT !.mem.isRemoteWakeUpEnabled = TRUE]
                   ELSE IF setup.wValueL = 0 THEN [s EXCEPT !.mem.isEndpointHalt = TRUE]
                   ELSE s
         IN Ok(Trigger(s1, <<"EP0STATUS">>), TRUE)
    [] setup.bRequest = usb_SET_ADDRESS -> Ok(s, TRUE)
    [] setup.bRequest = usb_GET_DESCRIPTOR -> Ok(sendDescriptor(s, setup), TRUE)
    [] setup.bRequest = usb_SET_DESCRIPTOR -> Ok(s, FALSE)
    [] setup.bRequest = usb_GET_CONFIGURATION ->
         Ok(sendUSBPacket(s, 0, <<s.mem.usbConfiguration>>), TRUE)
    [] setup.bRequest = usb_SET_CONFIGURATION ->
         IF BitAnd(setup.bmRequestType, usb_REQUEST_RECIPIENT) = usb_REQUEST_DEVICE
         THEN LET s1 == InitEndpoints(Trigger(s, <<"EP0STATUS">>), FirstConfiguredEndpoint)
              IN Ok([s1 EXCEPT !.mem.usbConfiguration = setup.wValueL], TRUE)
         ELSE Ok(s, FALSE)
    [] setup.bRequest = usb_GET_INTERFACE ->
         Ok(sendUSBPacket(s, 0, <<s.mem.usbSetInterface>>), TRUE)
    [] setup.bRequest = usb_SET_INTERFACE ->
         Ok(Trigger([s EXCEPT !.mem.usbSetInterface = setup.wValueL], <<"EP0STATUS">>), TRUE)
    [] OTHER -> StandardDefault(s)

\* the 7 bytes of GET_LINE_CODING (lines 352-359)
LineCodingBytes(li) ==
  << U32Byte(li.dwDTERate, 0), U32Byte(li.dwDTERate, 1), U32Byte(li.dwDTERate, 2),
     U32Byte(li.dwDTERate, 3), li.bCharFormat % 256, li.bParityType % 256,
     li.bDataBits % 256 >>

\* cdcSetup (lines 349-385)
cdcSetup(s, setup) ==
  IF setup.bmRequestType = usb_REQUEST_DEVICETOHOST_CLASS_INTERFACE
       /\ setup.bRequest = usb_CDC_GET_LINE_CODING
  THEN Ok(sendUSBPacket(s, 0, LineCodingBytes(s.mem.usbLineInfo)), TRUE)
  ELSE IF setup.bmRequestType = usb_REQUEST_HOSTTODEVICE_CLASS_INTERFACE
  THEN IF setup.bRequest = usb_CDC_SET_LINE_CODING
       THEN Ok(Trigger([s EXCEPT !.mem.epout0data_setlinecoding = TRUE,
                                 !.USBD.ep0RcvOut = TRUE], <<"EP0RCVOUT">>), TRUE)
       ELSE LET s1 == IF setup.bRequest = usb_CDC_SET_CONTROL_LINE_STATE
                      THEN Trigger(checkShouldReset(
                             [s EXCEPT !.mem.usbLineInfo.lineState = setup.wValueL]),
                             <<"EP0STATUS">>)
                      ELSE s
                s2 == IF setup.bRequest = usb_CDC_SEND_BREAK
                      THEN Trigger(s1, <<"EP0STATUS">>)
                      ELSE s1
            IN Ok(s2, TRUE)
  ELSE Ok(s, FALSE)

----------------------------------------------------------------------------
(* handleInterrupt (lines 109-226), one operator per polled event class.   *)

\* USBD ready event (lines 111-125)
evUSBEVENT(s) ==
  IF s.USBD.EVENTS_USBEVENT = 1
  THEN LET s1 == Trigger([s EXCEPT !.USBD.EVENTS_USBEVENT = 0], <<"USBEVENT">>)
           s2 == IF "READY" \in s1.USBD.EVENTCAUSE
                 THEN [initEndpoint(s1, 0, usb_ENDPOINT_TYPE_CONTROL)
                         EXCEPT !.USBD.USBPULLUP = 1, !.mem.usbConfiguration = 0]
                 ELSE s1
       IN [s2 EXCEPT !.USBD.EVENTCAUSE = {}]
  ELSE s

\* the continuation sent with its record left in place
ep0ContinueKeepsRecord(s) ==
  IF s.mem.sendOnEP0DATADONE.ptr # Nil
  THEN sendViaEPIn(s, 0, s.mem.sendOnEP0DATADONE.ptr, s.mem.sendOnEP0DATADONE.count)
  ELSE Trigger(s, <<"EP0STATUS">>)

\* the continuation branch of the EP0 data-done handling (lines 136-149)
ep0Continue(s) ==
  IF s.mem.sendOnEP0DATADONE.ptr # Nil
  THEN [sendViaEPIn(s, 0, s.mem.sendOnEP0DATADONE.ptr, s.mem.sendOnEP0DATADONE.count)
          EXCEPT !.mem.sendOnEP0DATADONE.ptr = Nil]
  ELSE Trigger(s, <<"EP0STATUS">>)

\* EP0 data done (lines 127-151)
evEP0DATADONE(s) ==
  IF s.USBD.EVENTS_EP0DATADONE = 1
  THEN LET s1 == Trigger([s EXCEPT !.USBD.EVENTS_EP0DATADONE = 0], <<"EP0DATADONE">>)
       IN IF s1.mem.epout0data_setlinecoding
          THEN Return(startEPOut(s1, 0, EP0OutMaxCnt))
          ELSE Return(ep0Continue(s1))
  ELSE s

\* Endpoint 0 setup (lines 154-175)
evEP0SETUP(s) ==
  IF s.USBD.EVENTS_EP0SETUP = 1
  THEN LET setup == parseUSBSetupRegisters(s)
           s1 == Trigger([s EXCEPT !.USBD.EVENTS_EP0SETUP = 0], <<"EP0SETUP", setup>>)
           s2 == IF BitAnd(setup.bmRequestType, usb_REQUEST_TYPE) = usb_REQUEST_STANDARD
                 THEN handleStandardSetup(s1, setup)
                 ELSE IF setup.wIndex = usb_CDC_ACM_INTERFACE
                      THEN cdcSetup(s1, setup)
                      ELSE Ok(s1, FALSE)
       IN IF ~s2.ok THEN Trigger(s2, <<"EP0STALL">>) ELSE s2
  ELSE s

\* one endpoint of the EPDATA loop (lines 184-203)
epDataEndpoint(s, i, epDataStatus) ==
  LET inDataDone == <<"IN", i>> \in epDataStatus
      outDataDone == <<"OUT", i>> \in epDataStatus
  IN IF i = usb_CDC_ENDPOINT_OUT /\ outDataDone
     THEN LET s1 == enterCriticalSection(s)
          IN IF s1.hung THEN s1 ELSE startEPOut(s1, i, s1.USBD.SIZE_EPOUT[i])
     ELSE IF i = usb_CDC_ENDPOINT_IN /\ inDataDone
     THEN exitCriticalSection(s)
     ELSE s

RECURSIVE epDataLoop(_, _, _)
epDataLoop(s, i, epDataStatus) ==
  IF i >= NumEndpoints \/ s.hung THEN s
  ELSE epDataLoop(epDataEndpoint(s, i, epDataStatus), i + 1, epDataStatus)

\* the transfer handlers (lines 178-205); EPDATASTATUS is cleared by writing
\* back the bits read
evEPDATA(s) ==
  IF s.USBD.EVENTS_EPDATA > 0
  THEN LET epDataStatus == s.USBD.EPDATASTATUS
           s1 == Trigger([s EXCEPT !.USBD.EVENTS_EPDATA = 0,
                                   !.USBD.EPDATASTATUS = @ \ epDataStatus], <<"EPDATA">>)
       IN epDataLoop(s1, 1, epDataStatus)
  ELSE s

\* usbcdc.Receive(b): Buffer.Put of the ring buffer, which drops a byte
\* when it is full
Receive(s, b) ==
  LET s1 == Trigger(s, <<"Receive", b>>)
  IN IF Len(s1.mem.Buffer) < RingCap
     THEN [s1 EXCEPT !.mem.Buffer = Append(@, b)]
     ELSE s1

RECURSIVE receiveLoop(_, _, _, _)
receiveLoop(s, ep, i, count) ==
  IF i < count
  THEN receiveLoop(Receive(s, s.mem.udd_ep_out_cache_buffer[ep][i + 1]), ep, i + 1, count)
  ELSE s

\* a handleEndpoint whose loop starts at the second byte
handleEndpointFromSecond(s, ep) ==
  setSizeEPOut(receiveLoop(s, ep, 1, s.USBD.EPOUT_AMOUNT[ep]), ep)

\* handleEndpoint (lines 508-519)
handleEndpoint(s, ep) ==
  setSizeEPOut(receiveLoop(s, ep, 0, s.USBD.EPOUT_AMOUNT[ep]), ep)

\* the end of the SET_LINE_CODING data phase (lines 211-219)
\* a handling that parses the buffer whatever the size received
endOfLineCodingUnchecked(s) ==
  LET s1 == [s EXCEPT !.mem.epout0data_setlinecoding = FALSE]
      s2 == checkShouldReset(
              parseUSBLineInfo(s1, SubSeq(s1.mem.udd_ep_out_cache_buffer[0], 1, LineCodingLen)))
  IN Trigger(s2, <<"EP0STATUS">>)

endOfLineCoding(s) ==
  LET s1 == [s EXCEPT !.mem.epout0data_setlinecoding = FALSE]
      count == s1.USBD.SIZE_EPOUT[0]
      s2 == IF count >= LineCodingLen
            THEN checkShouldReset(
                   parseUSBLineInfo(s1, SubSeq(s1.mem.udd_ep_out_cache_buffer[0], 1, count)))
            ELSE s1
  IN Trigger(s2, <<"EP0STATUS">>)

\* one endpoint of the ENDEPOUT loop (lines 209-224)
endEPOutEndpoint(s, i) ==
  IF s.USBD.EVENTS_ENDEPOUT[i] > 0
  THEN LET s1 == Trigger([s EXCEPT !.USBD.EVENTS_ENDEPOUT[i] = 0], <<"ENDEPOUT", i>>)
           s2 == IF i = 0 /\ s1.mem.epout0data_setlinecoding
                 THEN endOfLineCoding(s1)
                 ELSE s1
           s3 == IF i = usb_CDC_ENDPOINT_OUT THEN handleEndpoint(s2, i) ELSE s2
       IN exitCriticalSection(s3)
  ELSE s

RECURSIVE endEPOutLoop(_, _)
endEPOutLoop(s, i) ==
  IF i < NumEndpoints THEN endEPOutLoop(endEPOutEndpoint(s, i), i + 1) ELSE s

\* ENDEPOUT[n] events (lines 207-225)
evENDEPOUT(s) == endEPOutLoop(s, 0)

\* a later part of the handler runs unless an earlier one returned or hangs
Then(s, next) == IF s.ret \/ s.hung THEN s ELSE next

\* handleInterrupt up to its ENDEPOUT loop (lines 109-205)
beforeENDEPOUT(s) ==
  LET a == evUSBEVENT(s)
      b == evEP0DATADONE(a)
      c == Then(b, evEP0SETUP(b))
  IN Then(c, evEPDATA(c))

\* handleInterrupt (lines 109-226)
handleInterrupt(s) ==
  LET d == beforeENDEPOUT(s)
  IN Then(d, evENDEPOUT(d))

----------------------------------------------------------------------------
(* The initial state: the package-level variables as declared (lines       *)
(* 43-69), the peripheral disabled, nothing in flight.                     *)

InRows == {0, usb_CDC_ENDPOINT_IN}
OutRows == {0, usb_CDC_ENDPOINT_OUT}

Init ==
  /\ mem = [usbLineInfo |-> [dwDTERate |-> U32(115200), bCharFormat |-> 0, bParityType |-> 0,
                             bDataBits |-> 8, lineState |-> 0],
            easyDMABusy |-> 0,
            sendOnEP0DATADONE |-> [ptr |-> Nil, count |-> 0],
            epout0data_setlinecoding |-> FALSE,
            usbConfiguration |-> 0,
            usbSetInterface |-> 0,
            isEndpointHalt |-> FALSE,
            isRemoteWakeUpEnabled |-> FALSE,
            epinen |-> {},
            epouten |-> {},
            udd_ep_in_cache_buffer |-> [ep \in InRows |-> Zeros(CacheLen)],
            udd_ep_out_cache_buffer |-> [ep \in OutRows |-> Zeros(CacheLen)],
            Buffer |-> << >>]
  /\ USBD = [ENABLE |-> 0,
             USBPULLUP |-> 0,
             EVENTS_USBEVENT |-> 0,
             EVENTCAUSE |-> {},
             EVENTS_EP0DATADONE |-> 0,
             EVENTS_EP0SETUP |-> 0,
             EVENTS_EPDATA |-> 0,
             EPDATASTATUS |-> {},
             EVENTS_ENDEPOUT |-> [i \in 0..(NumEndpoints - 1) |-> 0],
             setup |-> [BMREQUESTTYPE |-> 0, BREQUEST |-> 0, WVALUEL |-> 0, WVALUEH |-> 0,
                        WINDEXL |-> 0, WINDEXH |-> 0, WLENGTHL |-> 0, WLENGTHH |-> 0],
             SIZE_EPOUT |-> [i \in 0..(NumEndpoints - 1) |-> 0],
             EPOUT_AMOUNT |-> [i \in 0..(NumEndpoints - 1) |-> 0],
             epoutData |-> [ep \in OutRows |-> << >>],
             ep0RcvOut |-> FALSE,
             epinLoaded |-> {},
             epoutArmed |-> {}]
  /\ dma = {}
  /\ fg = [pc |-> "idle", c |-> 0, ls |-> 0, err |-> "none"]
  /\ isr = "idle"
  /\ log = << >>
  /\ obs = [lineCoding |-> << >>, configuration |-> Nil]

----------------------------------------------------------------------------
(* Foreground code.  It runs only while the handler is not running; a hung *)
(* handler never gives the processor back.                                 *)

\* an event the handler polls is pending
IrqPending ==
  \/ USBD.EVENTS_USBEVENT = 1
  \/ USBD.EVENTS_EP0DATADONE = 1
  \/ USBD.EVENTS_EP0SETUP = 1
  \/ USBD.EVENTS_EPDATA = 1
  \/ \E i \in 0..(NumEndpoints - 1) : USBD.EVENTS_ENDEPOUT[i] = 1

\* the foreground runs: the handler is not running, and no interrupt is
\* pending (a pending interrupt is taken before the next instruction)
Running == isr = "idle" /\ ~IrqPending

\* Configure (lines 89-107): enables the peripheral and its interrupts and
\* leaves the pullup off
Configure ==
  /\ Running /\ fg.pc = "idle" /\ USBD.ENABLE = 0
  /\ USBD' = [USBD EXCEPT !.ENABLE = 1, !.USBPULLUP = 0]
  /\ log' = << >> /\ UNCHANGED <<mem, dma, fg, isr, obs>>

\* the condition of WriteByte (line 22)
WriteByteSends(lineState) == lineState > 0

\* WriteByte (lines 20-33), up to the call of enterCriticalSection
WriteByteCall(c) ==
  /\ Running /\ fg.pc = "idle"
  /\ fg' = IF WriteByteSends(mem.usbLineInfo.lineState)
           THEN [pc |-> "wait", c |-> c, ls |-> mem.usbLineInfo.lineState, err |-> "none"]
           ELSE [pc |-> "idle", c |-> 0, ls |-> 0, err |-> "nil"]
  /\ log' = << >> /\ UNCHANGED <<mem, USBD, dma, isr, obs>>

\* waitForEasyDMA (lines 78-82) leaves its loop
WriteByteWait ==
  /\ Running /\ fg.pc = "wait"
  /\ mem.easyDMABusy # 1
  /\ fg' = [fg EXCEPT !.pc = "set"]
  /\ log' = << >> /\ UNCHANGED <<mem, USBD, dma, isr, obs>>

\* easyDMABusy.SetBits(1) of enterCriticalSection (line 75)
WriteByteSet ==
  /\ Running /\ fg.pc = "set"
  /\ mem' = [mem EXCEPT !.easyDMABusy = 1]
  /\ fg' = [fg EXCEPT !.pc = "send"]
  /\ log' = << >> /\ UNCHANGED <<USBD, dma, isr, obs>>

\* the buffer write and sendViaEPIn of WriteByte (lines 24-29), and its return
WriteByteSend ==
  /\ Running /\ fg.pc = "send"
  /\ LET r == sendViaEPIn(
                [Cur EXCEPT !.mem.udd_ep_in_cache_buffer[usb_CDC_ENDPOINT_IN][1] = fg.c],
                usb_CDC_ENDPOINT_IN, 0, 1)
     IN mem' = r.mem /\ dma' = r.dma
  /\ fg' = [pc |-> "idle", c |-> 0, ls |-> 0, err |-> "nil"]
  /\ log' = << >> /\ UNCHANGED <<USBD, isr, obs>>

\* DTR, RTS (lines 35-41)
\* DTR read from the RTS bit
DTRFromRTSBit == BitAnd(mem.usbLineInfo.lineState, usb_CDC_LINESTATE_RTS) > 0

DTR == BitAnd(mem.usbLineInfo.lineState, usb_CDC_LINESTATE_DTR) > 0

RTS == BitAnd(mem.usbLineInfo.lineState, usb_CDC_LINESTATE_RTS) > 0

----------------------------------------------------------------------------
(* The interrupt.                                                          *)

Range(f) == {f[i] : i \in DOMAIN f}

\* the setup packets a log shows handled
SetupsIn(l) == {e[2] : e \in {x \in Range(l) : x[1] = "EP0SETUP"}}

\* the log shows a successful SET_CONFIGURATION
ConfigurationSet(l) ==
  /\ <<"EP0STALL">> \notin Range(l)
  /\ \E p \in SetupsIn(l) :
        /\ BitAnd(p.bmRequestType, usb_REQUEST_TYPE) = usb_REQUEST_STANDARD
        /\ p.bRequest = usb_SET_CONFIGURATION

\* the log shows the bus-ready handling (initEndpoint(0, ...) is called
\* nowhere else)
ReadyHandled(l) == <<"initEndpoint", 0>> \in Range(l)

\* obs after a handler invocation with log l; data is what the host sent
\* last in an EP0 OUT data phase.  Within an invocation the bus-ready
\* handling comes before the setup handling.
Observe(o, l, data) ==
  [lineCoding |->
     IF <<"parseUSBLineInfo">> \in Range(l) THEN SubSeq(data, 1, LineCodingLen)
     ELSE o.lineCoding,
   configuration |->
     IF ConfigurationSet(l) THEN (CHOOSE p \in SetupsIn(l) : TRUE).wValueL
     ELSE IF ReadyHandled(l) THEN Nil
     ELSE o.configuration]

\* one invocation of handleInterrupt, run to its end or to where it hangs
Interrupt ==
  /\ isr = "idle"
  /\ IrqPending
  /\ LET r == handleInterrupt(Cur)
     IN /\ mem' = r.mem
        /\ USBD' = r.USBD
        /\ dma' = r.dma
        /\ log' = r.log
        /\ isr' = IF r.hung THEN "hung" ELSE "idle"
        /\ obs' = Observe(obs, r.log, USBD.epoutData[0])
  /\ UNCHANGED fg

----------------------------------------------------------------------------
(* The peripheral and the host.                                            *)

\* the number of event registers set that the handler has not yet consumed
PendingCount ==
  USBD.EVENTS_USBEVENT + USBD.EVENTS_EP0DATADONE + USBD.EVENTS_EP0SETUP
    + USBD.EVENTS_EPDATA + USBD.EVENTS_ENDEPOUT[0] + USBD.EVENTS_ENDEPOUT[1]
    + USBD.EVENTS_ENDEPOUT[2] + USBD.EVENTS_ENDEPOUT[3]

\* the peripheral raises one more event before the handler runs
MayRaise == PendingCount < MaxPending

\* the USBEVENT event with a cause: READY after the enable, or a bus event
USBEvent(cause) ==
  /\ MayRaise
  /\ USBD.ENABLE = 1
  /\ cause = "READY" \/ USBD.USBPULLUP = 1
  /\ USBD' = [USBD EXCEPT !.EVENTS_USBEVENT = 1, !.EVENTCAUSE = @ \cup {cause}]
  /\ log' = << >> /\ UNCHANGED <<mem, dma, fg, isr, obs>>

\* endpoint 0 is quiet: the handler has consumed its events and easyDMA has
\* ended its transfers
EP0Quiet ==
  /\ USBD.EVENTS_EP0SETUP = 0
  /\ USBD.EVENTS_EP0DATADONE = 0
  /\ USBD.EVENTS_ENDEPOUT[0] = 0
  /\ \A t \in dma : t.ep # 0

\* the host sends a setup packet, which ends the control transfer under way.
\* The host does so between the stages of a transfer, or in place of a stage
\* it gives up, and these are far longer than the handler and easyDMA take.
HostSetup(p) ==
  /\ MayRaise
  /\ USBD.USBPULLUP = 1
  /\ EP0Quiet
  /\ USBD' = [USBD EXCEPT !.setup = p, !.EVENTS_EP0SETUP = 1,
                          !.ep0RcvOut = FALSE, !.epinLoaded = @ \ {0}]
  /\ log' = << >> /\ UNCHANGED <<mem, dma, fg, isr, obs>>

\* the host takes the IN packet loaded for endpoint 0
HostEP0In ==
  /\ MayRaise
  /\ 0 \in USBD.epinLoaded
  /\ USBD' = [USBD EXCEPT !.EVENTS_EP0DATADONE = 1, !.epinLoaded = @ \ {0}]
  /\ log' = << >> /\ UNCHANGED <<mem, dma, fg, isr, obs>>

\* the host sends the OUT data of a control transfer, allowed by EP0RCVOUT
HostEP0Out(data) ==
  /\ MayRaise
  /\ USBD.ep0RcvOut
  /\ USBD' = [USBD EXCEPT !.epoutData[0] = data, !.SIZE_EPOUT[0] = Len(data),
                          !.EVENTS_EP0DATADONE = 1, !.ep0RcvOut = FALSE]
  /\ log' = << >> /\ UNCHANGED <<mem, dma, fg, isr, obs>>

\* the host takes the IN packet loaded for the bulk IN endpoint
HostBulkIn ==
  /\ MayRaise
  /\ usb_CDC_ENDPOINT_IN \in USBD.epinLoaded
  /\ usb_CDC_ENDPOINT_IN \in mem.epinen
  /\ USBD' = [USBD EXCEPT !.EVENTS_EPDATA = 1,
                          !.EPDATASTATUS = @ \cup {<<"IN", usb_CDC_ENDPOINT_IN>>},
                          !.epinLoaded = @ \ {usb_CDC_ENDPOINT_IN}]
  /\ log' = << >> /\ UNCHANGED <<mem, dma, fg, isr, obs>>

\* the host sends a packet to the bulk OUT endpoint
HostBulkOut(data) ==
  /\ MayRaise
  /\ usb_CDC_ENDPOINT_OUT \in mem.epouten
  /\ usb_CDC_ENDPOINT_OUT \in USBD.epoutArmed
  /\ USBD' = [USBD EXCEPT !.epoutData[usb_CDC_ENDPOINT_OUT] = data,
                          !.SIZE_EPOUT[usb_CDC_ENDPOINT_OUT] = Len(data),
                          !.EVENTS_EPDATA = 1,
                          !.EPDATASTATUS = @ \cup {<<"OUT", usb_CDC_ENDPOINT_OUT>>},
                          !.epoutArmed = @ \ {usb_CDC_ENDPOINT_OUT}]
  /\ log' = << >> /\ UNCHANGED <<mem, dma, fg, isr, obs>>

\* easyDMA ends an IN transfer: the endpoint holds the packet for the host
DMAEndIn(t) ==
  /\ t \in dma /\ t.dir = "IN"
  /\ dma' = dma \ {t}
  /\ USBD' = [USBD EXCEPT !.epinLoaded = @ \cup {t.ep}]
  /\ log' = << >> /\ UNCHANGED <<mem, fg, isr, obs>>

\* easyDMA ends an OUT transfer: the bytes received are in the cache
\* buffer, AMOUNT tells how many, ENDEPOUT is raised
DMAEndOut(t) ==
  /\ MayRaise
  /\ t \in dma /\ t.dir = "OUT"
  /\ LET amount == Min(t.cnt, Len(USBD.epoutData[t.ep]))
     IN /\ mem' = [mem EXCEPT !.udd_ep_out_cache_buffer[t.ep] =
                                 CopyInto(@, 0, SubSeq(USBD.epoutData[t.ep], 1, amount))]
        /\ USBD' = [USBD EXCEPT !.EPOUT_AMOUNT[t.ep] = amount,
                                !.EVENTS_ENDEPOUT[t.ep] = 1]
  /\ dma' = dma \ {t}
  /\ log' = << >> /\ UNCHANGED <<fg, isr, obs>>

\* a setup packet as the peripheral's setup registers hold it
SetupRegs(bm, req, vl, vh, idx, len) ==
  [BMREQUESTTYPE |-> bm, BREQUEST |-> req, WVALUEL |-> vl, WVALUEH |-> vh,
   WINDEXL |-> idx % 256, WINDEXH |-> idx \div 256,
   WLENGTHL |-> len % 256, WLENGTHH |-> len \div 256]

----------------------------------------------------------------------------
(* The inputs the environment draws from.                                  *)

\* standard requests: bmRequestType 0x00/0x80 device, 0x01 interface,
\* 0x82 endpoint
GetStatusDevice == SetupRegs(128, usb_GET_STATUS, 0, 0, 0, 2)
GetDeviceDescriptor(wLength) ==
  SetupRegs(128, usb_GET_DESCRIPTOR, 0, usb_DEVICE_DESCRIPTOR_TYPE, 0, wLength)
GetConfigDescriptor(wLength) ==
  SetupRegs(128, usb_GET_DESCRIPTOR, 0, usb_CONFIGURATION_DESCRIPTOR_TYPE, 0, wLength)
SetDescriptor == SetupRegs(0, usb_SET_DESCRIPTOR, 0, usb_DEVICE_DESCRIPTOR_TYPE, 0, 18)
GetConfiguration == SetupRegs(128, usb_GET_CONFIGURATION, 0, 0, 0, 1)
SetConfiguration(bm, value) == SetupRegs(bm, usb_SET_CONFIGURATION, value, 0, 0, 0)
\* SYNCH_FRAME (12): a standard request handleStandardSetup has no case for
SynchFrame == SetupRegs(130, 12, 0, 0, 0, 2)

\* class requests
GetLineCoding == SetupRegs(usb_REQUEST_DEVICETOHOST_CLASS_INTERFACE, usb_CDC_GET_LINE_CODING, 0, 0, usb_CDC_ACM_INTERFACE, 7)
SetLineCoding == SetupRegs(usb_REQUEST_HOSTTODEVICE_CLASS_INTERFACE, usb_CDC_SET_LINE_CODING, 0, 0, usb_CDC_ACM_INTERFACE, 7)
SetControlLineState(value) ==
  SetupRegs(usb_REQUEST_HOSTTODEVICE_CLASS_INTERFACE, usb_CDC_SET_CONTROL_LINE_STATE, value, 0, usb_CDC_ACM_INTERFACE, 0)

\* line coding payloads: 9600 8N1 with stop bit code 1, 1200 7E2, one of
\* all 255, one of 8 bytes (115200 baud, 5 data bits), and three short of a
\* line coding: of 0, 4 and 6 bytes
LineCodingPayloads ==
  { <<128, 37, 0, 0, 1, 0, 8>>,
    <<176, 4, 0, 0, 2, 2, 7>>,
    <<255, 255, 255, 255, 255, 255, 255>>,
    <<0, 194, 1, 0, 2, 1, 5, 9>>,
    << >>,
    <<176, 4, 0, 0>>,
    <<0, 225, 0, 0, 2, 1>> }

CauseSet == {"READY", "SUSPEND"}

\* READY is signalled once, after the enable (the handler then sets the pullup)
Ready == USBD.USBPULLUP = 0 /\ USBEvent("READY")

----------------------------------------------------------------------------
(* Spec: the serial port in use.  The foreground writes bytes while the    *)
(* host configures the device, opens the port, asks for the status and     *)
(* sends bulk data.                                                        *)

\* SET_CONTROL_LINE_STATE with wValueL = 4 sets a bit of lineState that is
\* neither DTR (1) nor RTS (2)
SerialSetups ==
  { SetConfiguration(0, 1), SetControlLineState(1),
    SetControlLineState(4), GetStatusDevice }

Next ==
  \/ Configure
  \/ \E c \in {65} : WriteByteCall(c)
  \/ WriteByteWait
  \/ WriteByteSet
  \/ WriteByteSend
  \/ Interrupt
  \/ Ready
  \/ \E p \in SerialSetups : HostSetup(p)
  \/ HostEP0In
  \/ HostBulkIn
  \/ \E d \in {<<104>>} : HostBulkOut(d)
  \/ \E t \in dma : DMAEndIn(t)
  \/ \E t \in dma : DMAEndOut(t)

Spec == Init /\ [][Next]_vars

(* SpecLineCoding: the host sets and gets the line coding.                 *)

NextLineCoding ==
  \/ Configure
  \/ Interrupt
  \/ Ready
  \/ \E p \in {SetLineCoding, GetLineCoding, SetControlLineState(3)} : HostSetup(p)
  \/ HostEP0In
  \/ \E d \in LineCodingPayloads : HostEP0Out(d)
  \/ \E t \in dma : DMAEndIn(t)
  \/ \E t \in dma : DMAEndOut(t)

SpecLineCoding == Init /\ [][NextLineCoding]_vars

(* SpecMultiPacket: the host reads the 75-byte configuration descriptor    *)
(* among other requests.                                                   *)

MultiPacketSetups ==
  { GetConfigDescriptor(75), GetConfigDescriptor(9), GetStatusDevice,
    SetLineCoding, GetLineCoding }

NextMultiPacket ==
  \/ Configure
  \/ Interrupt
  \/ Ready
  \/ \E p \in MultiPacketSetups : HostSetup(p)
  \/ HostEP0In
  \/ \E d \in {<<128, 37, 0, 0, 1, 0, 8>>, <<1, 2>>} : HostEP0Out(d)
  \/ \E t \in dma : DMAEndIn(t)
  \/ \E t \in dma : DMAEndOut(t)

SpecMultiPacket == Init /\ [][NextMultiPacket]_vars

(* SpecStandard: standard requests, with bus events at any time.           *)

StandardSetups ==
  { SetConfiguration(0, 1), SetConfiguration(0, 2), SetConfiguration(1, 1),
    GetConfiguration, SynchFrame, SetDescriptor,
    GetDeviceDescriptor(8), GetDeviceDescriptor(18) }

NextStandard ==
  \/ Configure
  \/ Interrupt
  \/ \E c \in CauseSet : USBEvent(c)
  \/ \E p \in StandardSetups : HostSetup(p)
  \/ HostEP0In
  \/ \E t \in dma : DMAEndIn(t)

SpecStandard == Init /\ [][NextStandard]_vars

----------------------------------------------------------------------------
(* The claims about the serial port in use, under Spec.                    *)

\* C1: in every reachable state at most one DMA transfer, IN or OUT, on any
\* endpoint, has been started and not yet completed.
C1_AtMostOneTransfer == Cardinality(dma) <= 1

\* C2: enterCriticalSection never sets easyDMABusy while it is already set:
\* the foreground's set (line 75) finds the flag clear, also when the
\* handler ran between the wait loop and the set.
C2_SetFindsFlagClear ==
  [][(fg.pc = "set" /\ fg'.pc = "send") => mem.easyDMABusy = 0]_vars

\* the one transfer WriteByte is to start: IN, endpoint 3, length 1, from the
\* start of the staging buffer, which holds the byte
WriteByteTransfer(c) ==
  /\ [ep |-> usb_CDC_ENDPOINT_IN, dir |-> "IN", ptr |-> 0, cnt |-> 1] \in dma'
  /\ mem'.udd_ep_in_cache_buffer[usb_CDC_ENDPOINT_IN][1] = c

\* C3: WriteByte returns nil; it goes on from its check of lineState (to
\* the critical section, the staging buffer and the transfer) only with DTR
\* or RTS set, and returns at once with neither; with DTR set it starts one
\* IN transfer of length 1 on the bulk IN endpoint, carrying the byte.
C3_WriteByteGatedByDTRAndRTS ==
  [][ /\ fg'.err \in {"none", "nil"}
      /\ (fg.pc = "idle" /\ fg'.pc # "idle") => (DTR \/ RTS)
      /\ (fg.pc = "send" /\ fg'.pc = "idle" /\ BitAnd(fg.ls, usb_CDC_LINESTATE_DTR) > 0) =>
           WriteByteTransfer(fg.c) ]_vars

\* C10: a transfer on a bulk or interrupt endpoint (1, 2, 3) is started only
\* while usbConfiguration is not 0.
C10_BulkTransferOnlyWhenConfigured ==
  [][\A t \in dma' \ dma : t.ep # 0 => mem'.usbConfiguration # 0]_vars

----------------------------------------------------------------------------
(* What a handler invocation did, read from its log.                       *)

Did(l, e) == e \in Range(l)

\* the entries of l after its EP0SETUP entry
AfterSetup(l) ==
  LET i == CHOOSE k \in DOMAIN l : l[k][1] = "EP0SETUP"
  IN SubSeq(l, i + 1, Len(l))

Count(l, e) == Cardinality({k \in DOMAIN l : l[k] = e})

\* a transfer from endpoint 0's IN buffer was started
StartedEP0In(l) == \E e \in Range(l) : e[1] = "STARTEPIN" /\ e[2] = 0

IsStandard(p) == BitAnd(p.bmRequestType, usb_REQUEST_TYPE) = usb_REQUEST_STANDARD

IsGetLineCoding(p) ==
  /\ p.bmRequestType = usb_REQUEST_DEVICETOHOST_CLASS_INTERFACE
  /\ p.bRequest = usb_CDC_GET_LINE_CODING
  /\ p.wIndex = usb_CDC_ACM_INTERFACE

\* the bus-ready handling is part of the next handler invocation
ReadyPending == USBD.EVENTS_USBEVENT = 1 /\ "READY" \in USBD.EVENTCAUSE

----------------------------------------------------------------------------
(* The claims about multi-packet responses, under SpecMultiPacket.         *)

\* a response longer than one packet was sent in this step: its first 64
\* bytes are started, the rest is left for the data-done event
FirstPacketOnly ==
  (mem'.sendOnEP0DATADONE # mem.sendOnEP0DATADONE /\ mem'.sendOnEP0DATADONE.ptr # Nil) =>
    /\ Did(log', <<"STARTEPIN", 0, 0, usbEndpointPacketSize>>)
    /\ mem'.sendOnEP0DATADONE.ptr = usbEndpointPacketSize
    /\ Count(log', <<"STARTEPIN", 0, 0, usbEndpointPacketSize>>) = 1
    /\ \A e \in Range(log') : (e[1] = "STARTEPIN" /\ e[2] = 0) => e[3] = 0

\* the setup packet received last asks for a descriptor
AnsweringGetDescriptor ==
  LET p == parseUSBSetupRegisters(Cur)
  IN USBD.EVENTS_EP0SETUP = 0 /\ IsStandard(p) /\ p.bRequest = usb_GET_DESCRIPTOR

\* the data-done event of the first packet starts the one continuation,
\* with all the rest
ContinuationOnDataDone ==
  (Did(log', <<"EP0DATADONE">>) /\ AnsweringGetDescriptor
     /\ mem.sendOnEP0DATADONE.ptr # Nil) =>
    /\ Did(log', <<"STARTEPIN", 0, mem.sendOnEP0DATADONE.ptr, mem.sendOnEP0DATADONE.count>>)
    /\ mem'.sendOnEP0DATADONE.ptr = Nil
    /\ Slice(mem'.udd_ep_in_cache_buffer[0], 0, Len(ConfigurationResponse))
         = ConfigurationResponse
    /\ ~Did(log', <<"EP0STATUS">>)

\* the data-done event with nothing left to send enters the status stage
StatusAfterContinuation ==
  (Did(log', <<"EP0DATADONE">>) /\ AnsweringGetDescriptor
     /\ mem.sendOnEP0DATADONE.ptr = Nil) =>
    (Did(log', <<"EP0STATUS">>) /\ ~StartedEP0In(log'))

\* C4: a response on endpoint 0 longer than 64 bytes goes out as a first
\* packet of its first 64 bytes, then one continuation with all the rest,
\* started upon the next EP0 data-done event and not before; the data-done
\* event after the continuation enters the status stage.
C4_MultiPacketResponse ==
  [][FirstPacketOnly /\ ContinuationOnDataDone /\ StatusAfterContinuation]_vars

----------------------------------------------------------------------------
(* The claims about the line coding, under SpecLineCoding.                 *)

\* C5: GET_LINE_CODING after a SET_LINE_CODING whose data phase delivered 7
\* or more bytes responds with exactly the first 7 of those bytes.
C5_LineCodingRoundTrip ==
  [][ (obs.lineCoding # << >> /\ \E p \in SetupsIn(log') : IsGetLineCoding(p)) =>
        /\ Did(log', <<"STARTEPIN", 0, 0, LineCodingLen>>)
        /\ Slice(mem'.udd_ep_in_cache_buffer[0], 0, LineCodingLen) = obs.lineCoding ]_vars

\* a GET_LINE_CODING has answered with 9600 baud, stop bit code 1, no
\* parity, 8 data bits, set before
C5_Witness ==
  /\ \E p \in SetupsIn(log) : IsGetLineCoding(p)
  /\ obs.lineCoding = <<128, 37, 0, 0, 1, 0, 8>>
  /\ Did(log, <<"STARTEPIN", 0, 0, LineCodingLen>>)
  /\ Slice(mem.udd_ep_in_cache_buffer[0], 0, LineCodingLen) = <<128, 37, 0, 0, 1, 0, 8>>

\* the handler is about to handle the end of a SET_LINE_CODING data phase
\* that delivered fewer than 7 bytes; d is the handler's state at the
\* ENDEPOUT loop
ShortLineCodingAt(d) ==
  /\ isr = "idle" /\ IrqPending
  /\ ~d.ret /\ ~d.hung
  /\ d.USBD.EVENTS_ENDEPOUT[0] = 1
  /\ d.mem.epout0data_setlinecoding
  /\ Len(d.USBD.epoutData[0]) < LineCodingLen

\* C6: a SET_LINE_CODING data phase that delivered fewer than 7 bytes leaves
\* every field of usbLineInfo as it was, signals no stall, and ends with the
\* status stage.
C6_ShortLineCodingIgnored ==
  LET d == beforeENDEPOUT(Cur)
      e == endEPOutEndpoint([d EXCEPT !.log = << >>], 0)
  IN ShortLineCodingAt(d) =>
       /\ e.mem.usbLineInfo = d.mem.usbLineInfo
       /\ ~Did(e.log, <<"EP0STALL">>)
       /\ Did(e.log, <<"EP0STATUS">>)
       /\ ~e.mem.epout0data_setlinecoding

\* the handler has handled the end of a 4-byte data phase: the line coding
\* set before is retained
C6_Witness ==
  /\ Did(log, <<"ENDEPOUT", 0>>)
  /\ Did(log, <<"EP0STATUS">>)
  /\ ~Did(log, <<"parseUSBLineInfo">>)
  /\ USBD.epoutData[0] = <<176, 4, 0, 0>>
  /\ obs.lineCoding = <<128, 37, 0, 0, 1, 0, 8>>
  /\ LineCodingBytes(mem.usbLineInfo) = obs.lineCoding

----------------------------------------------------------------------------
(* The claims about standard requests, under SpecStandard.                 *)

IsSetConfiguration(p) == IsStandard(p) /\ p.bRequest = usb_SET_CONFIGURATION

ToDevice(p) == BitAnd(p.bmRequestType, usb_REQUEST_RECIPIENT) = usb_REQUEST_DEVICE

\* a SET_CONFIGURATION for the device, handled in this step, has called
\* initEndpoint once for each endpoint of the table from index first on, and
\* set usbConfiguration to wValueL
ConfiguresFrom(first) ==
  \A p \in SetupsIn(log') :
    (IsSetConfiguration(p) /\ ToDevice(p)) =>
      /\ \A i \in first..(NumEndpoints - 1) :
           Count(AfterSetup(log'), <<"initEndpoint", i>>) = 1
      /\ mem'.usbConfiguration = p.wValueL

\* a GET_CONFIGURATION, handled in this step with no bus-ready event since
\* the last SET_CONFIGURATION, answers with the one byte set then
AnswersConfiguration ==
  \A p \in SetupsIn(log') :
    (IsStandard(p) /\ p.bRequest = usb_GET_CONFIGURATION
       /\ obs.configuration # Nil /\ ~ReadyPending) =>
      /\ Did(log', <<"STARTEPIN", 0, 0, 1>>)
      /\ Slice(mem'.udd_ep_in_cache_buffer[0], 0, 1) = <<obs.configuration>>

\* a SET_CONFIGURATION for another recipient is stalled, and leaves
\* usbConfiguration as it was
StallsOtherRecipient ==
  \A p \in SetupsIn(log') :
    (IsSetConfiguration(p) /\ ~ToDevice(p)) =>
      /\ Did(log', <<"EP0STALL">>)
      /\ ~ReadyPending => mem'.usbConfiguration = mem.usbConfiguration
      /\ \A i \in 1..(NumEndpoints - 1) : ~Did(log', <<"initEndpoint", i>>)

\* C7, as stated: SET_CONFIGURATION for the device initializes each endpoint
\* listed in the endpoint table (0 to 3) exactly once and sets
\* usbConfiguration to wValueL; GET_CONFIGURATION afterwards answers with
\* that byte; SET_CONFIGURATION for another recipient is stalled and leaves
\* usbConfiguration unchanged.
C7_AsStated ==
  [][ConfiguresFrom(0) /\ AnswersConfiguration /\ StallsOtherRecipient]_vars

\* SET_CONFIGURATION does not call initEndpoint for the control endpoint
LeavesControlEndpoint ==
  \A p \in SetupsIn(log') :
    IsSetConfiguration(p) => ~Did(AfterSetup(log'), <<"initEndpoint", 0>>)

\* C7, amended: SET_CONFIGURATION for the device initializes each endpoint
\* of the endpoint table but the control endpoint (1 to 3) exactly once,
\* does not initialize endpoint 0, and sets usbConfiguration to wValueL;
\* the rest as stated.
C7_SetConfiguration ==
  [][ /\ ConfiguresFrom(1) /\ LeavesControlEndpoint
      /\ AnswersConfiguration /\ StallsOtherRecipient ]_vars

\* a GET_CONFIGURATION has answered 2, set before by a SET_CONFIGURATION
\* whose invocation initialized endpoints 1 to 3
C7_Witness ==
  /\ \E p \in SetupsIn(log) : IsStandard(p) /\ p.bRequest = usb_GET_CONFIGURATION
  /\ obs.configuration = 2
  /\ Did(log, <<"STARTEPIN", 0, 0, 1>>)
  /\ mem.udd_ep_in_cache_buffer[0][1] = 2
  /\ mem.epinen = {0, 1, 3} /\ mem.epouten = {0, 2}

\* the request codes handleStandardSetup has a case for (lines 273-343)
HandledStandardRequests ==
  { usb_GET_STATUS, usb_CLEAR_FEATURE, usb_SET_FEATURE, usb_SET_ADDRESS,
    usb_GET_DESCRIPTOR, usb_SET_DESCRIPTOR, usb_GET_CONFIGURATION,
    usb_SET_CONFIGURATION, usb_GET_INTERFACE, usb_SET_INTERFACE }

\* C8: a standard request whose code is none of the handled ones makes the
\* handler trigger the endpoint 0 stall task (and return).
C8_UnknownStandardRequestStalls ==
  \A p \in SetupsIn(log) :
    (IsStandard(p) /\ p.bRequest \notin HandledStandardRequests) =>
      (Did(log, <<"EP0STALL">>) /\ isr = "idle")

\* C9: the 8 bytes sent for a GET_DESCRIPTOR of the device descriptor with
\* wLength 8 are the first 8 bytes of the descriptor sent for any other
\* wLength.
C9_ShortDeviceDescriptorIsPrefix ==
  \A p \in SetupsIn(log) :
    (IsStandard(p) /\ p.bRequest = usb_GET_DESCRIPTOR
       /\ p.wValueH = usb_DEVICE_DESCRIPTOR_TYPE /\ p.wLength = 8) =>
      /\ Did(log, <<"STARTEPIN", 0, 0, 8>>)
      /\ Slice(mem.udd_ep_in_cache_buffer[0], 0, 8)
           = SubSeq(DeviceDescriptorResponse(18), 1, 8)

----------------------------------------------------------------------------
(* SpecReset: bus events at any time, while the host reads the 75-byte     *)
(* configuration descriptor among other requests.                          *)

ResetSetups ==
  { GetConfigDescriptor(75), GetStatusDevice, SetConfiguration(0, 1) }

NextReset ==
  \/ Configure
  \/ Interrupt
  \/ \E c \in CauseSet : USBEvent(c)
  \/ \E p \in ResetSetups : HostSetup(p)
  \/ HostEP0In
  \/ \E t \in dma : DMAEndIn(t)

SpecReset == Init /\ [][NextReset]_vars

\* C11: the bus-ready handling sets usbConfiguration to 0 and discards the
\* continuation of a multi-packet response: after it no continuation is
\* pending, so that no later EP0 data-done event sends the remainder.
C11_ReadyDiscardsContinuation ==
  [][ (ReadyPending /\ Did(log', <<"USBEVENT">>)) =>
        LET a == evUSBEVENT(Cur)
        IN /\ a.mem.usbConfiguration = 0
           /\ a.mem.sendOnEP0DATADONE.ptr = Nil ]_vars

----------------------------------------------------------------------------
(* SpecClass: the class requests of the CDC-ACM interface, the recognized  *)
(* ones and others, with bus events at any time.                           *)

SendBreak ==
  SetupRegs(usb_REQUEST_HOSTTODEVICE_CLASS_INTERFACE, usb_CDC_SEND_BREAK, 0, 0, usb_CDC_ACM_INTERFACE, 0)
\* SEND_ENCAPSULATED_COMMAND (0): a class request cdcSetup has no case for
SendEncapsulatedCommand ==
  SetupRegs(usb_REQUEST_HOSTTODEVICE_CLASS_INTERFACE, 0, 0, 0, usb_CDC_ACM_INTERFACE, 0)
\* GET_ENCAPSULATED_RESPONSE (1), device-to-host
GetEncapsulatedResponse ==
  SetupRegs(usb_REQUEST_DEVICETOHOST_CLASS_INTERFACE, 1, 0, 0, usb_CDC_ACM_INTERFACE, 2)
\* SET_CONTROL_LINE_STATE addressed to the data interface
SetControlLineStateData(value) ==
  SetupRegs(usb_REQUEST_HOSTTODEVICE_CLASS_INTERFACE, usb_CDC_SET_CONTROL_LINE_STATE, value, 0, usb_CDC_DATA_INTERFACE, 0)
\* the code of SET_LINE_CODING in a device-to-host request
SetLineCodingToHost ==
  SetupRegs(usb_REQUEST_DEVICETOHOST_CLASS_INTERFACE, usb_CDC_SET_LINE_CODING, 0, 0, usb_CDC_ACM_INTERFACE, 7)

ClassSetups ==
  { SetControlLineState(v) : v \in 0..3 } \cup
  { SetLineCoding, GetLineCoding, SendBreak, SendEncapsulatedCommand,
    GetEncapsulatedResponse, SetControlLineStateData(3), SetLineCodingToHost }

NextClass ==
  \/ Configure
  \/ Interrupt
  \/ \E c \in CauseSet : USBEvent(c)
  \/ \E p \in ClassSetups : HostSetup(p)
  \/ HostEP0In
  \/ \E d \in {<<176, 4, 0, 0, 2, 2, 7>>} : HostEP0Out(d)
  \/ \E t \in dma : DMAEndIn(t)
  \/ \E t \in dma : DMAEndOut(t)

SpecClass == Init /\ [][NextClass]_vars

IsSetControlLineState(p) ==
  /\ p.bmRequestType = usb_REQUEST_HOSTTODEVICE_CLASS_INTERFACE
  /\ p.bRequest = usb_CDC_SET_CONTROL_LINE_STATE
  /\ p.wIndex = usb_CDC_ACM_INTERFACE

\* C12: DTR() is bit 0 and RTS() is bit 1 of wValueL of the most recently
\* handled SET_CONTROL_LINE_STATE request: a step that handles one leaves
\* them so, and any other step (SET_LINE_CODING and its data, the bus-ready
\* handling, any other request or event) leaves lineState as it was.  Both
\* are false before any such request (lineState is 0 in the first state).
C12_LineStateFollowsControlLineState ==
  /\ ~DTR /\ ~RTS
  /\ [][ LET set == {p \in SetupsIn(log') : IsSetControlLineState(p)}
         IN IF set # {}
            THEN \A p \in set :
                   /\ DTR' = (p.wValueL % 2 = 1)
                   /\ RTS' = ((p.wValueL \div 2) % 2 = 1)
            ELSE /\ mem'.usbLineInfo.lineState = mem.usbLineInfo.lineState
                 /\ DTR' = DTR /\ RTS' = RTS ]_vars

\* RTS alone was set by a request, after a line coding was received
C12_Witness ==
  /\ \E p \in SetupsIn(log) : IsSetControlLineState(p) /\ p.wValueL = 2
  /\ RTS /\ ~DTR
  /\ obs.lineCoding # << >>

----------------------------------------------------------------------------
(* The claims about easyDMABusy and the handler's control flow, under Spec.*)

\* the step is a handler invocation that handles the completion of an IN
\* transfer on the bulk IN endpoint
HandlesBulkInDone ==
  /\ Did(log', <<"EPDATA">>)
  /\ <<"IN", usb_CDC_ENDPOINT_IN>> \in USBD.EPDATASTATUS

\* C13: easyDMABusy is set only by the foreground WriteByte and by the
\* handler's bulk OUT handling, and cleared only by the handler when it
\* handles the completion of an IN transfer; no other event, in particular
\* no end-of-OUT event, clears it.
C13_BusyFlagClearedOnlyOnInDone ==
  [][ /\ (mem.easyDMABusy = 0 /\ mem'.easyDMABusy = 1) =>
           \/ fg.pc = "set" /\ fg'.pc = "send"
           \/ Did(log', <<"enterCriticalSection">>)
      /\ (mem.easyDMABusy = 1 /\ mem'.easyDMABusy = 0) => HandlesBulkInDone ]_vars

\* C14: every invocation of the handler terminates: the handler never waits
\* in enterCriticalSection for a flag that is set (only the handler itself
\* clears the flag, so such a wait has no end).
C14_HandlerNeverWaits == isr # "hung"

\* the place of a log entry's event class in the handler's polling order
\* (0 for an entry that is not the start of an event class's handling)
ClassRank(e) ==
  CASE e[1] = "USBEVENT" -> 1
    [] e[1] = "EP0DATADONE" -> 2
    [] e[1] = "EP0SETUP" -> 3
    [] e[1] = "EPDATA" -> 4
    [] e[1] = "ENDEPOUT" -> 5
    [] OTHER -> 0

InPollingOrder(l) ==
  \A j, k \in DOMAIN l :
    (j < k /\ ClassRank(l[j]) > 0 /\ ClassRank(l[k]) > 0) =>
      ClassRank(l[j]) <= ClassRank(l[k])

\* C15: an invocation of the handler that returns has handled every event
\* class that was pending when it was entered, in the polling order, and
\* has cleared the event register of each; in particular an EP0 setup,
\* endpoint-data or end-of-OUT event pending together with an EP0
\* data-done event is handled in the same invocation.
C15_AllPendingEventsHandled ==
  [][ (log' # << >> /\ isr' = "idle") =>
        /\ USBD.EVENTS_USBEVENT = 1 =>
             Did(log', <<"USBEVENT">>) /\ USBD'.EVENTS_USBEVENT = 0
        /\ USBD.EVENTS_EP0DATADONE = 1 =>
             Did(log', <<"EP0DATADONE">>) /\ USBD'.EVENTS_EP0DATADONE = 0
        /\ USBD.EVENTS_EP0SETUP = 1 =>
             SetupsIn(log') # {} /\ USBD'.EVENTS_EP0SETUP = 0
        /\ USBD.EVENTS_EPDATA = 1 =>
             Did(log', <<"EPDATA">>) /\ USBD'.EVENTS_EPDATA = 0
        /\ \A i \in 0..(NumEndpoints - 1) :
             USBD.EVENTS_ENDEPOUT[i] = 1 =>
               Did(log', <<"ENDEPOUT", i>>) /\ USBD'.EVENTS_ENDEPOUT[i] = 0
        /\ InPollingOrder(log') ]_vars

----------------------------------------------------------------------------
(* The outcome of a setup packet, under SpecStandard and SpecClass.        *)

\* the positions in l of the outcomes of the setup packet it shows handled:
\* the entries of the setup handling (up to the next event class) that
\* start an IN data packet on endpoint 0, enter the status stage, arm the
\* OUT data phase or stall
SetupOutcomes(l) ==
  LET i == CHOOSE k \in DOMAIN l : l[k][1] = "EP0SETUP"
  IN { k \in (i + 1)..Len(l) :
         /\ \A j \in (i + 1)..k : ClassRank(l[j]) = 0
         /\ \/ l[k] \in {<<"EP0STATUS">>, <<"EP0RCVOUT">>, <<"EP0STALL">>}
            \/ l[k][1] = "STARTEPIN" /\ l[k][2] = 0 }

\* C16: the handling of a setup packet has exactly one outcome: one IN data
\* packet started on endpoint 0, the status stage entered, the OUT data
\* phase armed, or a stall; never none and never two.
C16_ExactlyOneOutcome ==
  SetupsIn(log) # {} => Cardinality(SetupOutcomes(log)) = 1

----------------------------------------------------------------------------
(* SpecStatus: GET_STATUS for each recipient, with the endpoint-halt       *)
(* feature set and cleared.                                                *)

\* SET_FEATURE / CLEAR_FEATURE (ENDPOINT_HALT) addressed to the bulk IN endpoint
SetFeatureHalt == SetupRegs(2, usb_SET_FEATURE, 0, 0, 131, 0)
ClearFeatureHalt == SetupRegs(2, usb_CLEAR_FEATURE, 0, 0, 131, 0)
GetStatusInterface == SetupRegs(129, usb_GET_STATUS, 0, 0, 0, 2)
GetStatusEndpoint == SetupRegs(130, usb_GET_STATUS, 0, 0, 131, 2)

StatusSetups ==
  { SetFeatureHalt, ClearFeatureHalt, GetStatusDevice, GetStatusInterface,
    GetStatusEndpoint }

NextStatus ==
  \/ Configure
  \/ Interrupt
  \/ \E c \in CauseSet : USBEvent(c)
  \/ \E p \in StatusSetups : HostSetup(p)
  \/ HostEP0In
  \/ \E t \in dma : DMAEndIn(t)

SpecStatus == Init /\ [][NextStatus]_vars

\* the bytes of the IN data packet started on endpoint 0 in log l
EP0Response(l) ==
  LET e == CHOOSE x \in Range(l) : x[1] = "STARTEPIN" /\ x[2] = 0
  IN Slice(mem.udd_ep_in_cache_buffer[0], e[3], e[4])

\* the recipient of a request is an endpoint (bits 0..4 of bmRequestType = 2)
ToEndpoint(p) == BitAnd(p.bmRequestType, usb_REQUEST_RECIPIENT) = 2

\* C17: the response to GET_STATUS is exactly 2 bytes; bit 0 of the first
\* is the endpoint-halt flag when the request addresses an endpoint and 0
\* when it addresses the device or an interface; the second byte is 0.
C17_GetStatusResponse ==
  \A p \in SetupsIn(log) :
    (IsStandard(p) /\ p.bRequest = usb_GET_STATUS) =>
      /\ StartedEP0In(log)
      /\ EP0Response(log) =
           << IF ToEndpoint(p) /\ mem.isEndpointHalt THEN 1 ELSE 0, 0 >>

----------------------------------------------------------------------------
(* Class requests that are not recognized, under SpecClass.                *)

\* a class request addressed to the CDC-ACM interface that is one of the
\* four the driver knows, in its direction
RecognizedClassRequest(p) ==
  /\ p.wIndex = usb_CDC_ACM_INTERFACE
  /\ \/ /\ p.bmRequestType = usb_REQUEST_DEVICETOHOST_CLASS_INTERFACE
        /\ p.bRequest = usb_CDC_GET_LINE_CODING
     \/ /\ p.bmRequestType = usb_REQUEST_HOSTTODEVICE_CLASS_INTERFACE
        /\ p.bRequest \in {usb_CDC_SET_LINE_CODING, usb_CDC_SET_CONTROL_LINE_STATE,
                           usb_CDC_SEND_BREAK}

\* C18: a setup packet that is not a standard request is stalled, with
\* usbLineInfo and the line-coding-pending flag left as they were, whenever
\* its wIndex is not the CDC-ACM interface or its request is not one of the
\* four recognized ones in its direction; in particular an unrecognized
\* host-to-device class-interface request is stalled.
C18_UnrecognizedClassRequestStalls ==
  [][ \A p \in SetupsIn(log') :
        (~IsStandard(p) /\ ~RecognizedClassRequest(p)) =>
          /\ Did(log', <<"EP0STALL">>)
          /\ mem'.usbLineInfo = mem.usbLineInfo
          /\ mem'.epout0data_setlinecoding = mem.epout0data_setlinecoding ]_vars

----------------------------------------------------------------------------
(* The EP0 data-done handling and the end of a line coding's OUT read,     *)
(* under SpecMultiPacket.                                                  *)

\* the entries of l from its first entry e on, e excluded
AfterEntry(l, e) ==
  LET i == CHOOSE k \in DOMAIN l : l[k] = e
  IN SubSeq(l, i + 1, Len(l))

\* C19: the handling of an EP0 data-done event does exactly one of three
\* things, chosen by the two flags: with a line coding pending it arms the
\* OUT read on endpoint 0 (no continuation sent, no status stage, the flag
\* and the continuation record left as they are); else with a continuation
\* pending it sends the continuation and clears the record; else it enters
\* the status stage.  The line-coding flag is cleared only by the handling
\* of the end-of-OUT event of endpoint 0, which enters the status stage
\* exactly once.
C19_DataDoneDispatch ==
  [][ /\ Did(log', <<"EP0DATADONE">>) =>
           LET done == AfterEntry(log', <<"EP0DATADONE">>)
               pending == mem.sendOnEP0DATADONE
           IN IF mem.epout0data_setlinecoding
              THEN /\ done = << <<"STARTEPOUT", 0, EP0OutMaxCnt>> >>
                   /\ mem'.epout0data_setlinecoding
                   /\ mem'.sendOnEP0DATADONE = pending
              ELSE IF pending.ptr # Nil
              THEN /\ done = << <<"STARTEPIN", 0, pending.ptr, pending.count>> >>
                   /\ mem'.sendOnEP0DATADONE.ptr = Nil
              ELSE /\ done = << <<"EP0STATUS">> >>
                   /\ mem'.sendOnEP0DATADONE.ptr = Nil
      /\ (mem.epout0data_setlinecoding /\ ~mem'.epout0data_setlinecoding) =>
           Did(log', <<"ENDEPOUT", 0>>)
      /\ (mem.epout0data_setlinecoding /\ Did(log', <<"ENDEPOUT", 0>>)) =>
           /\ ~mem'.epout0data_setlinecoding
           /\ Count(AfterEntry(log', <<"ENDEPOUT", 0>>), <<"EP0STATUS">>) = 1 ]_vars

\* a data-done event was handled with both flags set: the OUT read of the
\* line coding was armed and the continuation stayed on record
C19_Witness ==
  /\ Did(log, <<"EP0DATADONE">>)
  /\ Did(log, <<"STARTEPOUT", 0, EP0OutMaxCnt>>)
  /\ mem.epout0data_setlinecoding
  /\ mem.sendOnEP0DATADONE.ptr # Nil

----------------------------------------------------------------------------
(* SpecBulk: the host sends packets of one to three bytes to the bulk OUT  *)
(* endpoint.                                                               *)

BulkPackets == { <<104, 105>>, <<106>>, <<107, 108, 109>> }

NextBulk ==
  \/ Configure
  \/ Interrupt
  \/ Ready
  \/ \E p \in {SetConfiguration(0, 1)} : HostSetup(p)
  \/ \E d \in BulkPackets : HostBulkOut(d)
  \/ \E t \in dma : DMAEndOut(t)

SpecBulk == Init /\ [][NextBulk]_vars

\* the bytes handed to Receive in log l, in order
RECURSIVE Pushed(_)
Pushed(l) ==
  IF l = << >> THEN << >>
  ELSE IF Head(l)[1] = "Receive" THEN <<Head(l)[2]>> \o Pushed(Tail(l))
  ELSE Pushed(Tail(l))

\* C20: the handling of an end-of-OUT event of the bulk OUT endpoint hands
\* to the ring buffer exactly the bytes the DMA transfer reported (AMOUNT
\* of them), one at a time and in the order received (the bytes of the
\* packet the host sent, when the transfer reported its whole length), and
\* then sets the endpoint's size to 0, which re-arms it; the ring buffer,
\* while it has room, is extended by those bytes.  No other step hands a
\* byte to the ring buffer.
C20_BulkOutBytesPushedInOrder ==
  [][ IF Did(log', <<"ENDEPOUT", usb_CDC_ENDPOINT_OUT>>)
      THEN LET received == SubSeq(mem.udd_ep_out_cache_buffer[usb_CDC_ENDPOINT_OUT],
                                  1, USBD.EPOUT_AMOUNT[usb_CDC_ENDPOINT_OUT])
           IN /\ Pushed(log') = received
              /\ Len(received) = Len(USBD.epoutData[usb_CDC_ENDPOINT_OUT]) =>
                   received = USBD.epoutData[usb_CDC_ENDPOINT_OUT]
              /\ USBD'.SIZE_EPOUT[usb_CDC_ENDPOINT_OUT] = 0
              /\ usb_CDC_ENDPOINT_OUT \in USBD'.epoutArmed
              /\ Len(mem.Buffer) + Len(received) <= RingCap =>
                   mem'.Buffer = mem.Buffer \o received
      ELSE Pushed(log') = << >> /\ mem'.Buffer = mem.Buffer ]_vars

\* a packet of two bytes was pushed, in order, after an earlier packet
C20_Witness ==
  /\ Did(log, <<"ENDEPOUT", usb_CDC_ENDPOINT_OUT>>)
  /\ Pushed(log) = <<104, 105>>
  /\ Len(mem.Buffer) > 0 /\ mem.Buffer[1] = 106

----------------------------------------------------------------------------
(* The continuation and the setup packet it belongs to, under              *)
(* SpecMultiPacket.                                                        *)

\* the handling of setup packet p, started with no continuation on record:
\* its record and staging buffer tell the remainder of the response to p
AnswerTo(p) ==
  LET s == [Cur EXCEPT !.mem.sendOnEP0DATADONE.ptr = Nil]
  IN IF IsStandard(p) THEN handleStandardSetup(s, p) ELSE cdcSetup(s, p)

\* C21: a continuation sent on an EP0 data-done event carries the remainder
\* of the response to the setup packet handled last: that response is
\* longer than one packet, and the bytes sent are its bytes after the first
\* 64.  A continuation left over from an abandoned response is not sent on
\* the data-done event of a later single-packet response.
C21_ContinuationOfLastSetup ==
  [][ \A e \in Range(log') :
        (/\ Did(log', <<"EP0DATADONE">>)
         /\ USBD.EVENTS_EP0SETUP = 0
         /\ e[1] = "STARTEPIN" /\ e[2] = 0 /\ e[3] # 0) =>
          LET r == AnswerTo(parseUSBSetupRegisters(Cur))
          IN /\ r.mem.sendOnEP0DATADONE.ptr # Nil
             /\ Slice(mem'.udd_ep_in_cache_buffer[0], e[3], e[4])
                  = Slice(r.mem.udd_ep_in_cache_buffer[0],
                          r.mem.sendOnEP0DATADONE.ptr, r.mem.sendOnEP0DATADONE.count) ]_vars

=============================================================================
